---- MODULE Spec2Model ----
(***************************************************************************)
(* SuperMap: an insertion-ordered Map with a capacity bound and expiry.    *)
(*                                                                         *)
(* Two variants of the class are modelled:                                 *)
(*   "timer"  src/unnamed/part_000: per-entry setTimeout expiry            *)
(*   "sweep"  src/unnamed/part_001: periodic setInterval sweep             *)
(* The variant and the constructor options are fixed by Init.  Every       *)
(* public method and every host timer callback is one action.              *)
(***************************************************************************)
EXTENDS Integers, Sequences, FiniteSets, TLC

\* ---------------------------------------------------------------- bounds
NumKeys   == 2
NumVals   == 2
MaxTtl    == 2
MaxTime   == 2
MaxTimers == 2
HistKeys  == 3
MaxHist   == 4
Epoch     == 100
\* the periodic scenario, in units of 10 ms: the sweep interval, expireAfter
\* and the time observed
Period    == 10
Window    == 5
Horizon   == 20
\* the largest integer given as an option
MaxOpt    == 2

\* #capacity when no capacity option is given (Number.MAX_SAFE_INTEGER in the
\* source; any value above every reachable size behaves the same).
MAX_SAFE_INTEGER == 1000000

\* #options.itemsLimit when no itemsLimit option is given
NO_LIMIT == -1

Keys   == 1..NumKeys
Values == 1..NumVals
Ttls   == 0..MaxTtl

VARIABLES
    variant,      \* "timer" | "sweep": which class is under test
    capacity,     \* #capacity (timer) / #options.itemsLimit (sweep)
    expireAfter,  \* #options.expireAfter (sweep)
    hasInterval,  \* 'intervalTime' in options (sweep)
    store,        \* the Map's entries, in insertion order: Seq(<<key, value>>)
    timeouts,     \* #timeouts: key -> timer handle (timer variant)
    timers,       \* host timers pending (scheduled, not fired, not cleared)
    dateCache,    \* [kDateCache]: Seq(<<key, stamp>>) in insertion order (sweep)
    interval,     \* #interval !== null (sweep)
    now,          \* Date.now()
    options,      \* the options record given to the constructor
    thrown,       \* the constructor threw a TypeError
    \* ---- history variables (not program state)
    lastOp,       \* the last method call or timer callback, with what the
                  \* properties below need of it ("other": none of it)
    calls,        \* the on-expire invocations made by the last operation
    peak,         \* the largest size the store had during the last operation
    expired,      \* expired[k]: values reported to on-expire for k since the
                  \* caller last touched k (timer variant)
    hist,         \* keys of the set calls so far, while only set was called
    insHist,      \* keys of the set calls that inserted a new key, likewise
    onlySets,     \* only set has been called so far, at most MaxHist times
    setAt,        \* setAt[k]: for a key in the store of a container with a
                  \* sweep interval, the time of its most recent set plus
                  \* that call's ttl (0: none)
    log,          \* the set calls and on-expire invocations of the periodic
                  \* scenario so far
    result        \* what the last bulk call (concat, concatMut, filter,
                  \* retain, filterMut, map, reduce, sort) was given, what it
                  \* returned and the callback invocations it made

vars == <<variant, capacity, expireAfter, hasInterval, store, timeouts, timers,
          dateCache, interval, now, options, thrown, lastOp, calls, peak,
          expired, hist, insHist, onlySets, setAt, log, result>>

config == <<variant, capacity, expireAfter, hasInterval>>

\* what the constructor was given and whether it threw
ctor == <<options, thrown>>

\* no bulk call has been made
NoCall == [op |-> "none"]

\* ------------------------------------------------- the host Map (black box)
Max(a, b) == IF a >= b THEN a ELSE b

KeysOf(s) == {s[i][1] : i \in DOMAIN s}

KeySeq(s) == [i \in DOMAIN s |-> s[i][1]]

Has(s, k) == k \in KeysOf(s)

Get(s, k) == LET i == CHOOSE j \in DOMAIN s : s[j][1] = k IN s[i][2]

\* Map.prototype.set: an existing key keeps its position, a new key is appended
MapSet(s, k, v) ==
    IF Has(s, k)
    THEN [i \in DOMAIN s |-> IF s[i][1] = k THEN <<k, v>> ELSE s[i]]
    ELSE Append(s, <<k, v>>)

\* Map.prototype.delete
MapDelete(s, k) == SelectSeq(s, LAMBDA e : e[1] # k)

IndexOf(s, k) == IF Has(s, k) THEN CHOOSE i \in DOMAIN s : s[i][1] = k ELSE 0

\* (mutant) an iterator that keeps its index when an entry is deleted
CursorByIndex(s, c, x) == c

\* a live Map iterator whose next entry is the c-th of s, after s.delete(x):
\* the entries behind a deleted one move up
Cursor(s, c, x) ==
    IF IndexOf(s, x) # 0 /\ IndexOf(s, x) < c THEN c - 1 ELSE c

\* (mutant) the newest key instead of the oldest
newestKey(s) == s[Len(s)][1]

\* this.keys().next().value on a non-empty map
firstKey(s) == s[1][1]

\* ------------------------------------------------------- the container
\* The fields of one SuperMap, with the history the operation in progress adds.
Self ==
    [store |-> store, timeouts |-> timeouts, timers |-> timers,
     dateCache |-> dateCache, interval |-> interval, expired |-> expired,
     calls |-> <<>>, peak |-> Len(store), threw |-> FALSE,
     setAt |-> setAt, seen |-> <<>>]

Commit(m) ==
    /\ store' = m.store
    /\ timeouts' = m.timeouts
    /\ timers' = m.timers
    /\ dateCache' = m.dateCache
    /\ interval' = m.interval
    /\ expired' = m.expired
    /\ calls' = m.calls
    /\ peak' = m.peak
    /\ setAt' = m.setAt

\* history: the store was changed to s
WithStore(m, s) == [m EXCEPT !.store = s, !.peak = Max(m.peak, Len(s))]

\* history: the caller removed key k (delete, clear, eviction): the timers of k
\* that are still pending afterwards outlive the entry they were armed for
NoteRemoved(m, k) ==
    [m EXCEPT !.expired[k] = <<>>,
              !.timers = {IF t.key = k THEN [t EXCEPT !.doomed = TRUE] ELSE t
                          : t \in m.timers}]

\* history: the caller set key k again: the timers of k that are still pending
\* were armed by an earlier set of k
NoteSet(m, k) ==
    [m EXCEPT !.expired[k] = <<>>,
              !.timers = {IF t.key = k THEN [t EXCEPT !.superseded = TRUE] ELSE t
                          : t \in m.timers}]

\* (mutant) on-expire invoked twice
InvokeTwice(m, k, v) ==
    [m EXCEPT !.calls = m.calls \o
                  << [key |-> k, value |-> v, present |-> Has(m.store, k),
                      size |-> Len(m.store)],
                     [key |-> k, value |-> v, present |-> Has(m.store, k),
                      size |-> Len(m.store)] >>]

\* history: a callback given by the caller is invoked with (v, k)
See(m, k, v) == [m EXCEPT !.seen = Append(m.seen, <<k, v>>)]

\* history: on-expire is invoked with (k, v)
Invoke(m, k, v) ==
    [m EXCEPT !.calls = Append(m.calls,
                  [key |-> k, value |-> v, present |-> Has(m.store, k),
                   size |-> Len(m.store)])]

\* clearTimeout(handle)
clearTimeout(ts, k, id) == {t \in ts : ~(t.key = k /\ t.id = id)}

\* a handle no pending timer of key k has
NewId(ts, k) ==
    CHOOSE i \in 1..(Cardinality(ts) + 1) :
        /\ \A t \in ts : ~(t.key = k /\ t.id = i)
        /\ \A j \in 1..(i - 1) : \E t \in ts : t.key = k /\ t.id = j

\* ---- timer variant (part_000)
\* (mutant) delete that reports the removed entry to on-expire
TDeleteReporting(m, k) ==
    LET m1 == IF k \in DOMAIN m.timeouts
              THEN [m EXCEPT
                      !.timers = clearTimeout(m.timers, k, m.timeouts[k]),
                      !.timeouts = [j \in DOMAIN m.timeouts \ {k} |-> m.timeouts[j]]]
              ELSE m
        m2 == WithStore(m1, MapDelete(m1.store, k))
    IN IF Has(m.store, k) THEN Invoke(m2, k, Get(m.store, k)) ELSE m2

\* delete(key): clear the registered timer, then Map.prototype.delete
TDelete(m, k) ==
    LET m1 == IF k \in DOMAIN m.timeouts
              THEN [m EXCEPT
                      !.timers = clearTimeout(m.timers, k, m.timeouts[k]),
                      !.timeouts = [j \in DOMAIN m.timeouts \ {k} |-> m.timeouts[j]]]
              ELSE m
    IN WithStore(m1, MapDelete(m1.store, k))

\* (mutant) the overflow check with > for >=
TEvictLate(m, k) ==
    IF Len(m.store) > capacity /\ ~Has(m.store, k)
    THEN NoteRemoved(TDelete(m, firstKey(m.store)), firstKey(m.store))
    ELSE m

\* (mutant) the overflow check without !this.has(key)
TEvictAlways(m, k) ==
    IF Len(m.store) >= capacity
    THEN NoteRemoved(TDelete(m, firstKey(m.store)), firstKey(m.store))
    ELSE m

\* the overflow check of set
TEvict(m, k) ==
    IF Len(m.store) >= capacity /\ ~Has(m.store, k)
    THEN NoteRemoved(TDelete(m, firstKey(m.store)), firstKey(m.store))
    ELSE m

\* the timeout registration of set: the new handle replaces the table entry
TArm(m, k, v, ttl) ==
    IF ttl > 0
    THEN LET id == NewId(m.timers, k)
         IN [m EXCEPT
               !.timeouts = [j \in DOMAIN m.timeouts \cup {k} |->
                                IF j = k THEN id ELSE m.timeouts[j]],
               !.timers = m.timers \cup
                   {[key |-> k, id |-> id, value |-> v, ttl |-> ttl,
                     deadline |-> now + ttl, superseded |-> FALSE,
                     doomed |-> FALSE]}]
    ELSE m

\* set(key, value, ttl)
TSet(m, k, v, ttl) ==
    LET m1 == TEvict(m, k)
        m2 == WithStore(m1, MapSet(m1.store, k, v))
    IN TArm(NoteSet(m2, k), k, v, ttl)

\* the setTimeout callback of set
TExpire(m, t) ==
    LET m1 == [m EXCEPT
                 !.timers = m.timers \ {t},
                 !.timeouts = [j \in DOMAIN m.timeouts \ {t.key} |-> m.timeouts[j]]]
        m2 == TDelete(m1, t.key)
    IN IF Has(m1.store, t.key)
       THEN [Invoke(m2, t.key, t.value) EXCEPT
               !.expired[t.key] = Append(m2.expired[t.key], t.value)]
       ELSE m2

\* clear(): delete every key, one by one, over the live key iterator
RECURSIVE TClear(_)
TClear(m) ==
    IF m.store = <<>> THEN m
    ELSE TClear(NoteRemoved(TDelete(m, firstKey(m.store)), firstKey(m.store)))

\* retain(cb) / filterMut(func): over the live entry iterator, delete the
\* entries the callback rejects; keep is the set of keys it accepts
RECURSIVE TRetainFrom(_, _, _)
TRetainFrom(m, i, keep) ==
    IF i > Len(m.store) THEN m
    ELSE LET k == m.store[i][1]
             m1 == See(m, k, m.store[i][2])
         IN IF k \in keep
            THEN TRetainFrom(m1, i + 1, keep)
            ELSE TRetainFrom(NoteRemoved(TDelete(m1, k), k),
                             Cursor(m1.store, i + 1, k), keep)

retain(m, keep) == TRetainFrom(m, 1, keep)

filterMut(m, keep) == TRetainFrom(m, 1, keep)

\* ---- comparators and Array.prototype.sort (stable)
Comparators == {"keyAsc", "keyDesc", "valAsc"}

Cmp(c, a, b) ==
    CASE c = "keyAsc"  -> a[1] - b[1]
      [] c = "keyDesc" -> b[1] - a[1]
      [] c = "valAsc"  -> a[2] - b[2]

\* (mutant) e placed in front whatever the comparator says
InsertFirst(s, e, c) == <<e>> \o s

\* e placed after the last element of the sorted s that does not follow it
InsertSorted(s, e, c) ==
    LET n == Cardinality({i \in DOMAIN s : \A j \in 1..i : Cmp(c, s[j], e) <= 0})
    IN SubSeq(s, 1, n) \o <<e>> \o SubSeq(s, n + 1, Len(s))

RECURSIVE ArraySort(_, _)
ArraySort(s, c) ==
    IF s = <<>> THEN <<>>
    ELSE InsertSorted(ArraySort(SubSeq(s, 1, Len(s) - 1), c), s[Len(s)], c)

\* (mutant) sort that clears the timeouts as it clears the store
TSortClearingTimers(m, c) ==
    [WithStore(WithStore(m, <<>>), ArraySort(m.store, c)) EXCEPT
        !.timers = {}, !.timeouts = <<>>]

\* sort(cb): super.clear(), then super.set of every entry in sorted order
TSort(m, c) == WithStore(WithStore(m, <<>>), ArraySort(m.store, c))

\* ---- sweep variant (part_001)
\* delete(key)
SDelete(m, k) ==
    LET m1 == IF hasInterval
              THEN [m EXCEPT !.dateCache = MapDelete(m.dateCache, k),
                             !.setAt[k] = 0]
              ELSE m
    IN WithStore(m1, MapDelete(m1.store, k))

\* the overflow check of set
SEvict(m, k) ==
    IF Len(m.store) >= capacity /\ ~Has(m.store, k)
    THEN NoteRemoved(SDelete(m, firstKey(m.store)), firstKey(m.store))
    ELSE m

\* (mutant) set that records the time of the call without the ttl
SSetStampsNow(m, k, v, ttl) ==
    IF capacity > -1 /\ capacity = 0 THEN m
    ELSE LET m1 == IF capacity > -1 THEN SEvict(m, k) ELSE m
             m2 == IF hasInterval
                   THEN [m1 EXCEPT !.dateCache = MapSet(m1.dateCache, k, now),
                                   !.setAt[k] = now + ttl]
                   ELSE m1
         IN WithStore(m2, MapSet(m2.store, k, v))

\* set(key, value, ttl)
SSet(m, k, v, ttl) ==
    IF capacity > -1 /\ capacity = 0 THEN m
    ELSE LET m1 == IF capacity > -1 THEN SEvict(m, k) ELSE m
             m2 == IF hasInterval
                   THEN [m1 EXCEPT !.dateCache = MapSet(m1.dateCache, k, now + ttl),
                                   !.setAt[k] = now + ttl]
                   ELSE m1
         IN WithStore(m2, MapSet(m2.store, k, v))

\* (mutant) the age test with <= for <
StaleInclusive(stamp) == expireAfter <= now - stamp

\* expireAfter < now - stamp
Stale(stamp) == expireAfter < now - stamp

\* (mutant) stopInterval that leaves the host interval running
stopIntervalKeepsTimer(m) ==
    IF ~hasInterval THEN m
    ELSE [m EXCEPT !.dateCache = <<>>]

stopInterval(m) ==
    IF ~hasInterval THEN m
    ELSE [m EXCEPT !.dateCache = <<>>, !.interval = FALSE]

startInterval(m) ==
    IF ~hasInterval THEN m
    ELSE [stopInterval(m) EXCEPT !.interval = TRUE]

\* clear(stopInterval)
SClear(m, stop) ==
    LET m1 == IF stop THEN stopInterval(m)
              ELSE IF hasInterval THEN [m EXCEPT !.dateCache = <<>>] ELSE m
    IN WithStore([m1 EXCEPT !.setAt = [k \in DOMAIN m.setAt |-> 0]], <<>>)

RECURSIVE SSetAll(_, _)
SSetAll(m, es) ==
    IF es = <<>> THEN m
    ELSE SSetAll(SSet(m, es[1][1], es[1][2], 0), Tail(es))

\* sort(sortFn): this.clear(), then this.set of every entry in sorted order
SSort(m, c) == SSetAll(SClear(m, FALSE), ArraySort(m.store, c))

\* sweep(sweeper): over Map.prototype.forEach, report and delete the entries
\* the sweeper selects; sel is the set of keys it selects, thr the keys for
\* which onSweep throws
RECURSIVE SSweepFrom(_, _, _, _)
SSweepFrom(m, i, sel, thr) ==
    IF i > Len(m.store) THEN m
    ELSE LET k == m.store[i][1]
             v == m.store[i][2]
         IN IF k \notin sel THEN SSweepFrom(m, i + 1, sel, thr)
            ELSE IF k \in thr THEN [Invoke(m, k, v) EXCEPT !.threw = TRUE]
            ELSE SSweepFrom(SDelete(Invoke(m, k, v), k), i, sel, thr)

sweep(m, sel, thr) == IF Len(m.store) = 0 THEN m ELSE SSweepFrom(m, 1, sel, thr)

\* what an onSweep callback does when it is invoked for a key k is cb[k]: it
\* throws, or it deletes some keys of the container and returns.  The
\* callbacks: one that throws for some keys and returns for the others, or one
\* that deletes the same keys whenever it is invoked
Callbacks ==
    {[k \in Keys |-> [throws |-> k \in thr, deletes |-> {}]] : thr \in SUBSET Keys}
    \cup {[k \in Keys |-> [throws |-> FALSE, deletes |-> d]] : d \in SUBSET Keys}

\* this.delete(x) while #onSweep iterates; it.i and it.j are the positions of
\* the next entry the store's and the date cache's iterator yield
IterDelete(it, x) ==
    [m |-> SDelete(it.m, x),
     i |-> Cursor(it.m.store, it.i, x),
     j |-> Cursor(it.m.dateCache, it.j, x)]

\* the deletes an onSweep callback makes
RECURSIVE CbDeletes(_, _)
CbDeletes(it, d) ==
    IF d = {} THEN it
    ELSE LET x == CHOOSE y \in d : TRUE
         IN CbDeletes(IterDelete(it, x), d \ {x})

\* #onSweep(): the store's and the date cache's iterators advance in lockstep;
\* i and j are the positions of the next entry each of them yields
RECURSIVE SOnSweepFrom(_, _, _, _)
SOnSweepFrom(m, i, j, cb) ==
    IF i > Len(m.store) THEN m
    ELSE LET k == m.store[i][1]
             v == m.store[i][2]
             more == j <= Len(m.dateCache)
             stamp == IF more THEN m.dateCache[j][2] ELSE 0
             j1 == IF more THEN j + 1 ELSE j
         IN IF ~Stale(stamp) THEN SOnSweepFrom(m, i + 1, j1, cb)
            ELSE IF cb[k].throws THEN [Invoke(m, k, v) EXCEPT !.threw = TRUE]
            ELSE LET it == CbDeletes([m |-> Invoke(m, k, v), i |-> i + 1, j |-> j1],
                                     cb[k].deletes)
                     it1 == IterDelete(it, k)
                 IN SOnSweepFrom(it1.m, it1.i, it1.j, cb)

onSweep(m, cb) == SOnSweepFrom(m, 1, 1, cb)

\* ---- both variants
\* (mutant) set that leaves an existing key alone
DoSetFirstWins(m, k, v, ttl) ==
    IF Has(m.store, k) THEN m
    ELSE IF variant = "timer" THEN TSet(m, k, v, ttl)
    ELSE NoteSet(SSet(m, k, v, ttl), k)

DoSet(m, k, v, ttl) ==
    IF variant = "timer" THEN TSet(m, k, v, ttl) ELSE NoteSet(SSet(m, k, v, ttl), k)

DoDelete(m, k) == IF variant = "timer" THEN TDelete(m, k) ELSE SDelete(m, k)

DoClear(m, stop) == IF variant = "timer" THEN TClear(m) ELSE SClear(m, stop)

DoSort(m, c) == IF variant = "timer" THEN TSort(m, c) ELSE SSort(m, c)

\* concatMut(...children): set(key, value) of every entry of every child
RECURSIVE concatMut(_, _)
concatMut(m, children) ==
    IF children = <<>> THEN m
    ELSE IF children[1] = <<>> THEN concatMut(m, Tail(children))
    ELSE concatMut(DoSet(m, children[1][1][1], children[1][1][2], 0),
                   <<Tail(children[1])>> \o Tail(children))

\* the argument lists of concat: what it does to this container depends on
\* the keys of the children only
ConcatArgs ==
    {<< >>}
    \cup {<<(<<(<<k, 1>>)>>)>> : k \in Keys}
    \cup {<<(<<(<<p[1], 1>>), (<<p[2], 1>>)>>)>> :
            p \in {q \in Keys \X Keys : q[1] # q[2]}}

\* concat(...children) (sweep variant): the new container shares the date
\* cache of this one, and every set and eviction made on it while it is filled
\* with the children's and this container's entries writes to that cache
concat(m, children) ==
    LET r == concatMut([m EXCEPT !.store = <<>>], Append(children, m.store))
    IN IF hasInterval THEN [m EXCEPT !.dateCache = r.dateCache] ELSE m

\* ---- methods that build a new container
\* (mutant) a new container that keeps the timers and the date cache
BlankKeepingExpiry(m) ==
    [m EXCEPT !.store = <<>>, !.calls = <<>>, !.peak = 0, !.threw = FALSE]

\* new SuperMap(options of m): the same capacity, callback and expiry options,
\* an empty store, no timeout registered, an empty date cache
Blank(m) ==
    [m EXCEPT !.store = <<>>, !.timeouts = <<>>, !.timers = {},
              !.dateCache = <<>>, !.interval = hasInterval,
              !.expired = [k \in DOMAIN m.expired |-> <<>>],
              !.calls = <<>>, !.peak = 0, !.threw = FALSE,
              !.setAt = [k \in DOMAIN m.setAt |-> 0]]

\* the container concat(...children) returns: a new container (sweep variant:
\* with the date cache of this one) that is given, through set, the entries
\* of children.concat(this), that is of every child and then of this one
concatNew(m, children) ==
    concatMut(IF variant = "sweep" THEN [Blank(m) EXCEPT !.dateCache = m.dateCache]
              ELSE Blank(m),
              Append(children, m.store))

\* ------------------------------------------------------ the constructor
\* An option is absent, an integer n, or a number that is not an integer.
Absent == [t |-> "absent", n |-> 0]

Integer(n) == [t |-> "int", n |-> n]

Frac == [t |-> "frac", n |-> 0]

Numbers == {Absent, Frac} \cup {Integer(n) : n \in -1..MaxOpt}

\* the options of the timer variant are capacity and onEntryExpiry, those of
\* the sweep variant intervalTime, expireAfter, itemsLimit and onSweep
Options(var) ==
    [capacity : Numbers,
     intervalTime : IF var = "timer" THEN {Absent} ELSE Numbers,
     expireAfter : IF var = "timer" THEN {Absent} ELSE Numbers,
     callback : {"absent", "function", "other"}]

\* Number.isSafeInteger
isSafeInteger(x) == x.t = "int"

\* the fields before the constructor body runs
Fields(var) ==
    [thrown |-> FALSE,
     capacity |-> IF var = "timer" THEN MAX_SAFE_INTEGER ELSE NO_LIMIT,
     expireAfter |-> 0, hasInterval |-> FALSE]

\* timer variant
TNew(o) ==
    IF isSafeInteger(o.capacity) /\ o.capacity.n > 0
    THEN IF o.callback = "other"
         THEN [Fields("timer") EXCEPT !.thrown = TRUE]
         ELSE [Fields("timer") EXCEPT !.capacity = o.capacity.n]
    ELSE IF o.capacity # Absent \/ o.callback = "other"
    THEN [Fields("timer") EXCEPT !.thrown = TRUE]
    ELSE Fields("timer")

\* (mutant) the sweep constructor rejecting itemsLimit 0
SNewRejectsZero(o) ==
    IF \/ o.intervalTime # Absent /\ ~isSafeInteger(o.intervalTime)
       \/ o.expireAfter # Absent /\ ~isSafeInteger(o.expireAfter)
       \/ o.capacity # Absent /\ (~isSafeInteger(o.capacity) \/ o.capacity.n = 0)
       \/ o.callback = "other"
    THEN [Fields("sweep") EXCEPT !.thrown = TRUE]
    ELSE [thrown |-> FALSE,
          capacity |-> IF o.capacity = Absent THEN NO_LIMIT ELSE o.capacity.n,
          expireAfter |-> IF o.expireAfter = Absent THEN 0 ELSE o.expireAfter.n,
          hasInterval |-> o.intervalTime # Absent]

\* sweep variant
SNew(o) ==
    IF \/ o.intervalTime # Absent /\ ~isSafeInteger(o.intervalTime)
       \/ o.expireAfter # Absent /\ ~isSafeInteger(o.expireAfter)
       \/ o.capacity # Absent /\ ~isSafeInteger(o.capacity)
       \/ o.callback = "other"
    THEN [Fields("sweep") EXCEPT !.thrown = TRUE]
    ELSE [thrown |-> FALSE,
          capacity |-> IF o.capacity = Absent THEN NO_LIMIT ELSE o.capacity.n,
          expireAfter |-> IF o.expireAfter = Absent THEN 0 ELSE o.expireAfter.n,
          hasInterval |-> o.intervalTime # Absent]

\* the options filter and concat give to the constructor of the new
\* container: those of this one
OwnOptions ==
    [capacity |-> Integer(capacity),
     intervalTime |-> IF hasInterval THEN Integer(1) ELSE Absent,
     expireAfter |-> IF variant = "timer" THEN Absent ELSE Integer(expireAfter),
     callback |-> "function"]

\* filter(func): the entries func accepts are set on a new container; r is
\* that container, es the entries of this one the iterator has yet to yield
RECURSIVE FilterFrom(_, _, _)
FilterFrom(r, es, keep) ==
    IF es = <<>> THEN r
    ELSE LET k == es[1][1]
             v == es[1][2]
             r1 == See(r, k, v)
         IN FilterFrom(IF k \in keep THEN DoSet(r1, k, v, 0) ELSE r1,
                       Tail(es), keep)

filter(m, keep) == FilterFrom(Blank(m), m.store, keep)

\* ---- map
\* the mappers: what mapCb returns for (v, k)
Mappers == {"key", "value", "sum"}

Apply(f, k, v) ==
    CASE f = "key"   -> k
      [] f = "value" -> v
      [] f = "sum"   -> k + v

\* filterCb is given (and accepts the keys in keep) or is not
NoFilter == [given |-> FALSE, keep |-> {}]

Filter(keep) == [given |-> TRUE, keep |-> keep]

\* #mapGenerator(mapCb, filterCb) drained by Array.from: es are the entries
\* the iterator has yet to yield, out the array and the callback invocations
\* so far
RECURSIVE MapFrom(_, _, _, _)
MapFrom(es, f, p, out) ==
    IF es = <<>> THEN out
    ELSE LET k == es[1][1]
             v == es[1][2]
             mapped == [array |-> Append(out.array, Apply(f, k, v)),
                        trace |-> Append(out.trace, [fn |-> "map", key |-> k,
                                                     value |-> v])]
         IN IF p.given
            THEN LET asked == [out EXCEPT !.trace =
                                   Append(out.trace, [fn |-> "filter", key |-> k,
                                                      value |-> v])]
                 IN MapFrom(Tail(es), f, p,
                            IF k \in p.keep
                            THEN [mapped EXCEPT !.trace =
                                      Append(asked.trace, [fn |-> "map", key |-> k,
                                                           value |-> v])]
                            ELSE asked)
            ELSE MapFrom(Tail(es), f, p, mapped)

\* (mutant) map that ignores filterCb
mapIgnoringFilter(m, f, p) ==
    MapFrom(m.store, f, NoFilter, [array |-> <<>>, trace |-> <<>>])

\* map(mapCb, filterCb)
map(m, f, p) == MapFrom(m.store, f, p, [array |-> <<>>, trace |-> <<>>])

\* ---- reduce
\* an accumulator: undefined, or the list of entries folded so far
Undefined == [defined |-> FALSE, list |-> <<>>]

Acc(es) == [defined |-> TRUE, list |-> es]

\* the initial values: none given, an empty list, a list of one entry
Initials == {Undefined, Acc(<<>>), Acc(<< <<0, 0>> >>)}

\* the reducer: it appends the entry to the list (undefined counts as empty)
Fn(acc, v, k) == Acc(Append(acc.list, <<k, v>>))

\* the loop of reduce: es are the entries the iterator has yet to yield
RECURSIVE ReduceFrom(_, _, _)
ReduceFrom(es, acc, trace) ==
    IF es = <<>> THEN [value |-> acc, trace |-> trace]
    ELSE ReduceFrom(Tail(es), Fn(acc, es[1][2], es[1][1]),
                    Append(trace, [acc |-> acc, key |-> es[1][1],
                                   value |-> es[1][2]]))

\* (mutant) reduce as Array.prototype.reduce does it: without an initial
\* value the first entry is the accumulator
reduceFromFirst(m, init) ==
    IF ~init.defined /\ m.store # <<>>
    THEN ReduceFrom(Tail(m.store), Acc(<<m.store[1]>>), <<>>)
    ELSE ReduceFrom(m.store, init, <<>>)

\* reduce(fn, initialValue)
reduce(m, init) == ReduceFrom(m.store, init, <<>>)

\* ------------------------------------------------------------ actions
NoHist == /\ hist' = <<>>
          /\ insHist' = <<>>
          /\ onlySets' = FALSE

Capacities(var) ==
    IF var = "timer" THEN 1..(NumKeys - 1) \cup {MAX_SAFE_INTEGER}
    ELSE 0..(NumKeys - 1) \cup {NO_LIMIT}

\* the argument lists of concatMut: one child of one entry, one child of two
\* entries, or two children that collide on a key
Entries == Keys \X Values

ChildArgs ==
    {<<(<<e>>)>> : e \in Entries}
    \cup {<<(<<p[1], p[2]>>)>> :
            p \in {q \in Entries \X Entries : q[1][1] < q[2][1] /\ q[1][2] = q[2][2]}}
    \cup {<<(<<p[1]>>), (<<p[2]>>)>> :
            p \in {q \in Entries \X Entries : q[1][1] = q[2][1] /\ q[1][2] < q[2][2]}}

InitState ==
    /\ store = <<>>
    /\ timeouts = <<>>
    /\ timers = {}
    /\ dateCache = <<>>
    /\ now = Epoch
    /\ lastOp = [op |-> "new"]
    /\ calls = <<>>
    /\ peak = 0
    /\ expired = [k \in 1..Max(NumKeys, HistKeys) |-> <<>>]
    /\ hist = <<>>
    /\ insHist = <<>>
    /\ setAt = [k \in 1..Max(NumKeys, HistKeys) |-> 0]
    /\ log = <<>>
    /\ result = NoCall

\* a container constructed with valid options
Built ==
    /\ options = << >>
    /\ thrown = FALSE

InitTimer ==
    /\ variant = "timer"
    /\ capacity \in Capacities(variant)
    /\ expireAfter = 0
    /\ hasInterval = FALSE
    /\ interval = FALSE
    /\ onlySets = FALSE
    /\ Built
    /\ InitState

\* the constructor starts the interval when intervalTime is given
InitSweep ==
    /\ variant = "sweep"
    /\ capacity \in Capacities(variant)
    /\ expireAfter \in {0, 1}
    /\ hasInterval \in BOOLEAN
    /\ interval = hasInterval
    /\ onlySets = FALSE
    /\ Built
    /\ InitState

Init == InitTimer \/ InitSweep

Set(k, v, ttl) ==
    /\ ttl > 0 /\ variant = "timer" => Cardinality(timers) < MaxTimers
    /\ Commit(DoSet(Self, k, v, ttl))
    /\ lastOp' = [op |-> "set", key |-> k, ttl |-> ttl, existed |-> Has(store, k),
                  full |-> Len(store) >= capacity]
    /\ onlySets' = (onlySets /\ Len(hist) < MaxHist)
    /\ hist' = IF onlySets' THEN Append(hist, k) ELSE <<>>
    /\ insHist' = IF onlySets'
                  THEN (IF Has(store, k) THEN insHist ELSE Append(insHist, k))
                  ELSE <<>>
    /\ UNCHANGED <<config, ctor, now, log, result>>

Delete(k) ==
    /\ Commit(NoteRemoved(DoDelete(Self, k), k))
    /\ lastOp' = [op |-> "delete"]
    /\ NoHist
    /\ UNCHANGED <<config, ctor, now, log, result>>

Clear(stop) ==
    /\ variant = "timer" => ~stop
    /\ Commit(DoClear(Self, stop))
    /\ lastOp' = [op |-> "clear"]
    /\ NoHist
    /\ UNCHANGED <<config, ctor, now, log, result>>

Sort(c) ==
    /\ Commit(DoSort(Self, c))
    /\ lastOp' = [op |-> "other"]
    /\ NoHist
    /\ UNCHANGED <<config, ctor, now, log, result>>

ConcatMut(children) ==
    /\ Commit(concatMut(Self, children))
    /\ lastOp' = [op |-> "other"]
    /\ NoHist
    /\ UNCHANGED <<config, ctor, now, log, result>>

Concat(children) ==
    /\ variant = "sweep"
    /\ Commit(concat(Self, children))
    /\ lastOp' = [op |-> "other"]
    /\ NoHist
    /\ UNCHANGED <<config, ctor, now, log, result>>

Retain(keep) ==
    /\ variant = "timer"
    /\ Commit(retain(Self, keep))
    /\ lastOp' = [op |-> "other"]
    /\ NoHist
    /\ UNCHANGED <<config, ctor, now, log, result>>

FilterMut(keep) ==
    /\ variant = "timer"
    /\ Commit(filterMut(Self, keep))
    /\ lastOp' = [op |-> "other"]
    /\ NoHist
    /\ UNCHANGED <<config, ctor, now, log, result>>

\* a pending timer fires once it is due; the host runs due timers in the order
\* of their deadlines
Fire(t) ==
    /\ variant = "timer"
    /\ t \in timers
    /\ t.deadline <= now
    /\ \A u \in timers : t.deadline <= u.deadline
    /\ Commit(TExpire(Self, t))
    /\ lastOp' = [op |-> "fire", key |-> t.key, value |-> t.value, ttl |-> t.ttl,
                  superseded |-> t.superseded,
                  doomed |-> t.doomed, removed |-> Has(store, t.key)]
    /\ NoHist
    /\ UNCHANGED <<config, ctor, now, log, result>>

Sweep(sel, thr) ==
    /\ variant = "sweep"
    /\ thr \subseteq sel
    /\ LET m == sweep(Self, sel, thr)
       IN /\ Commit(m)
          /\ lastOp' = [op |-> "sweep", threw |-> m.threw]
    /\ NoHist
    /\ UNCHANGED <<config, ctor, now, log, result>>

StartInterval ==
    /\ variant = "sweep"
    /\ Commit(startInterval(Self))
    /\ lastOp' = [op |-> "start"]
    /\ NoHist
    /\ UNCHANGED <<config, ctor, now, log, result>>

StopInterval ==
    /\ variant = "sweep"
    /\ Commit(stopInterval(Self))
    /\ lastOp' = [op |-> "stop"]
    /\ NoHist
    /\ UNCHANGED <<config, ctor, now, log, result>>

\* the setInterval callback
Tick(cb) ==
    /\ variant = "sweep"
    /\ interval
    /\ LET m == onSweep(Self, cb)
       IN /\ Commit(m)
          /\ lastOp' = [op |-> "tick", threw |-> m.threw]
    /\ NoHist
    /\ UNCHANGED <<config, ctor, now, log, result>>

Advance ==
    /\ now < Epoch + MaxTime
    /\ now' = now + 1
    /\ lastOp' = [op |-> "advance"]
    /\ UNCHANGED <<config, ctor, store, timeouts, timers, dateCache, interval,
                   calls, peak, expired, hist, insHist, onlySets, setAt, log,
                   result>>

Next ==
    \/ \E k \in Keys, v \in Values, ttl \in Ttls : Set(k, v, ttl)
    \/ \E k \in Keys : Delete(k)
    \/ \E stop \in BOOLEAN : Clear(stop)
    \/ \E c \in Comparators : Sort(c)
    \/ \E ch \in ChildArgs : ConcatMut(ch)
    \/ \E keep \in SUBSET Keys : Retain(keep)
    \/ \E keep \in SUBSET Keys : FilterMut(keep)
    \/ \E t \in timers : Fire(t)
    \/ \E sel \in SUBSET Keys, thr \in SUBSET Keys : Sweep(sel, thr)
    \/ StartInterval
    \/ StopInterval
    \/ \E cb \in Callbacks : Tick(cb)
    \/ Advance

Spec == Init /\ [][Next]_vars

\* ---- the sweep variant alone
NextSweep ==
    \/ \E k \in Keys, v \in Values, ttl \in Ttls : Set(k, v, ttl)
    \/ \E k \in Keys : Delete(k)
    \/ \E stop \in BOOLEAN : Clear(stop)
    \/ \E c \in Comparators : Sort(c)
    \/ \E ch \in ChildArgs : ConcatMut(ch)
    \/ \E ch \in ConcatArgs : Concat(ch)
    \/ \E sel \in SUBSET Keys, thr \in SUBSET Keys : Sweep(sel, thr)
    \/ StartInterval
    \/ StopInterval
    \/ \E cb \in Callbacks : Tick(cb)
    \/ Advance

SpecSweep == InitSweep /\ [][NextSweep]_vars

\* ---- the periodic scenario: a sweep-variant container with intervalTime =
\* Period and expireAfter = Window; every key is set at most once, before the
\* first tick; the interval's callback runs at every multiple of Period
InitPeriodic ==
    /\ variant = "sweep"
    /\ capacity = NO_LIMIT
    /\ expireAfter = Window
    /\ hasInterval = TRUE
    /\ interval = TRUE
    /\ onlySets = FALSE
    /\ Built
    /\ InitState

\* an onSweep callback that returns without touching the container
QuietCallback == [k \in Keys |-> [throws |-> FALSE, deletes |-> {}]]

\* the interval armed at Epoch is due
TickDue == now > Epoch /\ (now - Epoch) % Period = 0

PeriodicSet(k, v) ==
    /\ now < Epoch + Period
    /\ ~Has(store, k)
    /\ Commit(DoSet(Self, k, v, 0))
    /\ lastOp' = [op |-> "set", key |-> k, ttl |-> 0, existed |-> FALSE,
                  full |-> Len(store) >= capacity]
    /\ log' = Append(log, [ev |-> "set", key |-> k, value |-> v, at |-> now])
    /\ NoHist
    /\ UNCHANGED <<config, ctor, now, result>>

PeriodicTick ==
    /\ TickDue
    /\ lastOp.op # "tick"
    /\ interval
    /\ LET m == onSweep(Self, QuietCallback)
       IN /\ Commit(m)
          /\ lastOp' = [op |-> "tick", threw |-> m.threw]
          /\ log' = log \o [i \in DOMAIN m.calls |->
                               [ev |-> "expire", key |-> m.calls[i].key,
                                value |-> m.calls[i].value, at |-> now]]
    /\ NoHist
    /\ UNCHANGED <<config, ctor, now, result>>

\* time passes once the callback that is due has run
Elapse ==
    /\ now < Epoch + Horizon
    /\ TickDue => lastOp.op = "tick"
    /\ now' = now + 1
    /\ lastOp' = [op |-> "advance"]
    /\ UNCHANGED <<config, ctor, store, timeouts, timers, dateCache, interval,
                   calls, peak, expired, hist, insHist, onlySets, setAt, log,
                   result>>

NextPeriodic ==
    \/ \E k \in Keys, v \in Values : PeriodicSet(k, v)
    \/ PeriodicTick
    \/ Elapse

SpecPeriodic == InitPeriodic /\ [][NextPeriodic]_vars

\* ---- construction: the container starts with its field initialisers, new
\* SuperMap(options) runs the constructor, and a container whose constructor
\* returned is then used
InitCtor ==
    /\ variant \in {"timer", "sweep"}
    /\ options \in Options(variant)
    /\ thrown = FALSE
    /\ capacity = IF variant = "timer" THEN MAX_SAFE_INTEGER ELSE NO_LIMIT
    /\ expireAfter = 0
    /\ hasInterval = FALSE
    /\ interval = FALSE
    /\ onlySets = FALSE
    /\ store = <<>>
    /\ timeouts = <<>>
    /\ timers = {}
    /\ dateCache = <<>>
    /\ now = Epoch
    /\ lastOp = [op |-> "none"]
    /\ calls = <<>>
    /\ peak = 0
    /\ expired = [k \in 1..Max(NumKeys, HistKeys) |-> <<>>]
    /\ hist = <<>>
    /\ insHist = <<>>
    /\ setAt = [k \in 1..Max(NumKeys, HistKeys) |-> 0]
    /\ log = <<>>
    /\ result = NoCall

New ==
    /\ lastOp.op = "none"
    /\ LET r == IF variant = "timer" THEN TNew(options) ELSE SNew(options)
       IN /\ thrown' = r.thrown
          /\ capacity' = r.capacity
          /\ expireAfter' = r.expireAfter
          /\ hasInterval' = r.hasInterval
          /\ interval' = r.hasInterval
    /\ lastOp' = [op |-> "new"]
    /\ UNCHANGED <<variant, options, store, timeouts, timers, dateCache, now,
                   calls, peak, expired, hist, insHist, onlySets, setAt, log,
                   result>>

\* the constructor returned a container
Constructed == lastOp.op # "none" /\ ~thrown

NextCtor ==
    \/ New
    \/ Constructed /\ \E k \in Keys, v \in Values : Set(k, v, 0)
    \/ Constructed /\ \E k \in Keys : Delete(k)

SpecCtor == InitCtor /\ [][NextCtor]_vars

\* ---- one bulk call on a container that set and delete calls have filled
\* the entries of the j-th child have the value NumVals + j, which no entry
\* set on the receiver has
Child(ks, j) == [i \in DOMAIN ks |-> <<ks[i], NumVals + j>>]

KeyLists == {<< >>} \cup {<<k>> : k \in Keys}
            \cup {<<p[1], p[2]>> : p \in {q \in Keys \X Keys : q[1] # q[2]}}

\* the argument lists of at most two children
Children ==
    {<< >>} \cup {<<Child(a, 1)>> : a \in KeyLists}
    \cup {<<Child(a, 1), Child(b, 2)>> : a \in KeyLists, b \in KeyLists}

\* no bulk call has been made yet
Filling == result = NoCall

Called(r) ==
    /\ Filling
    /\ result' = r
    /\ lastOp' = [op |-> "other"]
    /\ NoHist
    /\ UNCHANGED <<config, ctor, now, log>>

\* concat(...children); for two children also concat(b).concat(c)
ConcatCall(children) ==
    /\ Called([op |-> "concat", receiver |-> store, children |-> children,
               returned |-> concatNew(Self, children).store,
               chained |-> IF Len(children) = 2
                           THEN concatNew(concatNew(Self, <<children[1]>>),
                                          <<children[2]>>).store
                           ELSE <<>>])
    /\ Commit(IF variant = "sweep" THEN concat(Self, children) ELSE Self)

\* concatMut(...children)
ConcatMutCall(children) ==
    /\ Called([op |-> "concatMut", receiver |-> store, children |-> children])
    /\ Commit(concatMut(Self, children))

\* retain(cb)
RetainCall(keep) ==
    /\ variant = "timer"
    /\ LET m == retain(Self, keep)
       IN /\ Called([op |-> "retain", receiver |-> store, keep |-> keep,
                     seen |-> m.seen])
          /\ Commit(m)

\* filterMut(func)
FilterMutCall(keep) ==
    /\ variant = "timer"
    /\ LET m == filterMut(Self, keep)
       IN /\ Called([op |-> "filterMut", receiver |-> store, keep |-> keep,
                     seen |-> m.seen])
          /\ Commit(m)

\* filter(func)
FilterCall(keep) ==
    /\ LET r == filter(Self, keep)
       IN Called([op |-> "filter", receiver |-> store, keep |-> keep,
                  seen |-> r.seen, returned |-> r.store,
                  timers |-> r.timers, timeouts |-> r.timeouts,
                  dateCache |-> r.dateCache,
                  built |-> IF variant = "timer" THEN TNew(OwnOptions)
                            ELSE SNew(OwnOptions)])
    /\ Commit(Self)

\* map(mapCb, filterCb), and filter(filterCb).map(mapCb) on the same state
MapCall(f, keep) ==
    /\ Called([op |-> "map", receiver |-> store, f |-> f, keep |-> keep,
               fused |-> map(Self, f, Filter(keep)),
               chained |-> map(filter(Self, keep), f, NoFilter).array])
    /\ Commit(Self)

\* reduce(fn, initialValue)
ReduceCall(init) ==
    /\ LET r == reduce(Self, init)
       IN Called([op |-> "reduce", receiver |-> store, init |-> init,
                  value |-> r.value, trace |-> r.trace])
    /\ Commit(Self)

\* sort(cb)
SortCall(c) ==
    /\ Called([op |-> "sort", receiver |-> store, cmp |-> c,
               timers |-> timers, timeouts |-> timeouts,
               dateCache |-> dateCache])
    /\ Commit(DoSort(Self, c))

NextCalls ==
    \/ Filling /\ \E k \in Keys, v \in Values, ttl \in {0, MaxTtl} : Set(k, v, ttl)
    \/ Filling /\ \E k \in Keys : Delete(k)
    \/ \E ch \in Children : ConcatCall(ch)
    \/ \E ch \in Children : ConcatMutCall(ch)
    \/ \E keep \in SUBSET Keys : RetainCall(keep)
    \/ \E keep \in SUBSET Keys : FilterMutCall(keep)
    \/ \E keep \in SUBSET Keys : FilterCall(keep)
    \/ \E f \in Mappers, keep \in SUBSET Keys : MapCall(f, keep)
    \/ \E init \in Initials : ReduceCall(init)
    \/ \E c \in Comparators : SortCall(c)

SpecCalls == Init /\ [][NextCalls]_vars

\* ---- one sort call on a container that set calls have filled, and the
\* timers that fire afterwards
NextSort ==
    \/ Filling /\ \E k \in Keys, v \in Values, ttl \in {0, MaxTtl} : Set(k, v, ttl)
    \/ \E c \in Comparators : SortCall(c)
    \/ \E t \in timers : Fire(t)
    \/ Advance

SpecSort == Init /\ [][NextSort]_vars

\* ---- a traversal whose callback inserts: some(func) on a timer-variant
\* container that set calls have filled, one callback invocation per step.
\* func inserts the key ins[k] when it is called for the key k (0: it inserts
\* nothing) and returns false, so the traversal runs to the end of the store
Inserters == [Keys -> 0..NumKeys]

\* this.set(x, v) made by the callback while the iterator's next entry is the
\* i-th: an eviction moves the entries behind the evicted one up
IterSet(m, i, x, v) ==
    [m |-> DoSet(m, x, v, 0),
     i |-> IF Len(m.store) >= capacity /\ ~Has(m.store, x)
           THEN Cursor(m.store, i, firstKey(m.store))
           ELSE i]

\* const entries = this.entries()
SomeCall(ins) ==
    /\ Called([op |-> "some", ins |-> ins, next |-> 1, done |-> FALSE])
    /\ Commit(Self)

Traversing == result.op = "some" /\ ~result.done

\* entries.next() yields an entry and func is called for it
SomeVisit ==
    /\ Traversing
    /\ result.next <= Len(store)
    /\ LET k == store[result.next][1]
           x == result.ins[k]
           it == IF x = 0 THEN [m |-> Self, i |-> result.next + 1]
                 ELSE IterSet(Self, result.next + 1, x, 1)
       IN /\ Commit(it.m)
          /\ result' = [result EXCEPT !.next = it.i]
    /\ lastOp' = [op |-> "other"]
    /\ NoHist
    /\ UNCHANGED <<config, ctor, now, log>>

\* entries.next() is done: some returns false
SomeReturn ==
    /\ Traversing
    /\ result.next > Len(store)
    /\ Commit(Self)
    /\ result' = [result EXCEPT !.done = TRUE]
    /\ lastOp' = [op |-> "other"]
    /\ NoHist
    /\ UNCHANGED <<config, ctor, now, log>>

NextTraverse ==
    \/ Filling /\ \E k \in Keys, v \in Values : Set(k, v, 0)
    \/ \E ins \in Inserters : SomeCall(ins)
    \/ SomeVisit
    \/ SomeReturn

\* a call runs to completion: the loop of some is never suspended
SpecTraverse ==
    InitTimer /\ [][NextTraverse]_vars /\ WF_vars(SomeVisit) /\ WF_vars(SomeReturn)

\* ---- the sweep variant as first written (part_003): set takes no ttl, clear
\* takes no flag, and the container is built with intervalTime and an integer
\* expireAfter
\* set(key, value): the date cache records Date.now()
LegacySet(m, k, v) == SSet(m, k, v, 0)

\* clear() { return this.stopInterval(), super.clear() }
LegacyClear(m) == SClear(m, TRUE)

\* sort(sortFn): this.clear(), then this.set of every entry in sorted order
LegacySort(m, c) == SSetAll(LegacyClear(m), ArraySort(m.store, c))

\* this.#dateCache.get(k) || 0
LegacyStamp(m, k) == IF Has(m.dateCache, k) THEN Get(m.dateCache, k) ELSE 0

\* #onSweep(): sweep the entries whose age exceeds expireAfter
LegacyOnSweep(m) ==
    sweep(m, {k \in KeysOf(m.store) : Stale(LegacyStamp(m, k))}, {})

InitLegacy ==
    /\ variant = "sweep"
    /\ capacity \in Capacities(variant)
    /\ expireAfter \in {0, 1}
    /\ hasInterval = TRUE
    /\ interval = TRUE
    /\ onlySets = FALSE
    /\ Built
    /\ InitState

SetLegacy(k, v) ==
    /\ Commit(NoteSet(LegacySet(Self, k, v), k))
    /\ lastOp' = [op |-> "set", key |-> k, ttl |-> 0, existed |-> Has(store, k),
                  full |-> Len(store) >= capacity]
    /\ NoHist
    /\ UNCHANGED <<config, ctor, now, log, result>>

ClearLegacy ==
    /\ Commit(LegacyClear(Self))
    /\ lastOp' = [op |-> "clear"]
    /\ NoHist
    /\ UNCHANGED <<config, ctor, now, log, result>>

SortLegacy(c) ==
    /\ Commit(LegacySort(Self, c))
    /\ lastOp' = [op |-> "sort"]
    /\ NoHist
    /\ UNCHANGED <<config, ctor, now, log, result>>

\* the setInterval callback
TickLegacy ==
    /\ interval
    /\ Commit(LegacyOnSweep(Self))
    /\ lastOp' = [op |-> "tick", threw |-> FALSE]
    /\ NoHist
    /\ UNCHANGED <<config, ctor, now, log, result>>

NextLegacy ==
    \/ \E k \in Keys, v \in Values : SetLegacy(k, v)
    \/ ClearLegacy
    \/ \E c \in Comparators : SortLegacy(c)
    \/ StartInterval
    \/ StopInterval
    \/ TickLegacy
    \/ Advance

SpecLegacy == InitLegacy /\ [][NextLegacy]_vars

\* ---- set calls only, over HistKeys keys, with the history of the calls kept
HKeys == 1..HistKeys

InitSets ==
    /\ variant \in {"timer", "sweep"}
    /\ capacity \in 1..(HistKeys - 1)
    /\ expireAfter = 0
    /\ hasInterval = (variant = "sweep")
    /\ interval = hasInterval
    /\ onlySets = TRUE
    /\ Built
    /\ InitState

SetTracked(k, v, ttl) ==
    /\ onlySets
    /\ Len(hist) < MaxHist
    /\ Set(k, v, ttl)

NextSets == \E k \in HKeys, v \in Values, ttl \in Ttls : SetTracked(k, v, ttl)

SpecSets == InitSets /\ [][NextSets]_vars

\* ================================================================ properties
Limited == capacity >= 1 /\ capacity # MAX_SAFE_INTEGER

Min(a, b) == IF a <= b THEN a ELSE b

\* the last n elements of s
LastN(s, n) == SubSeq(s, Len(s) - Min(n, Len(s)) + 1, Len(s))

\* the n keys most recently passed to set
RECURSIVE RecentKeys(_, _)
RecentKeys(h, n) ==
    IF n = 0 \/ h = <<>> THEN {}
    ELSE LET k == h[Len(h)]
         IN {k} \cup RecentKeys(SelectSeq(h, LAMBDA x : x # k), n - 1)

\* C1: with a capacity limit N >= 1 the store never holds more than N
\* entries, neither after an operation nor at any point during it.
C1_SizeWithinCapacity ==
    capacity >= 1 => Len(store) <= capacity /\ peak <= capacity

\* C1 witness: a set of a new key on a full timer-variant container evicted.
C1_Witness ==
    /\ variant = "timer" /\ Limited
    /\ lastOp.op = "set" /\ lastOp.full /\ ~lastOp.existed
    /\ Len(store) = capacity

\* C2 (as claimed): after set calls only, the keys left are the N keys most
\* recently inserted or updated.
C2_MostRecentlyTouchedSurvive ==
    onlySets /\ Limited => KeysOf(store) = RecentKeys(hist, capacity)

\* C2 (amended): after set calls only, the keys left are, in order, the N keys
\* most recently inserted as new keys; a set of a key already present is no
\* insertion and does not refresh the key.
C2_MostRecentlyInsertedSurvive ==
    onlySets /\ Limited => KeySeq(store) = LastN(insHist, capacity)

\* C2 witness: MaxHist set calls, among them re-sets and evictions.
C2_Witness ==
    /\ onlySets /\ Limited
    /\ Len(hist) = MaxHist
    /\ Len(insHist) < Len(hist)
    /\ Len(insHist) > capacity

\* C3: a set of a key already present evicts nothing and changes nothing but
\* that key's value and expiry state: same keys in the same order, the other
\* entries, timers and timestamps as before.
C3_ResetKeepsOthers ==
    [][lastOp'.op = "set" /\ Has(store, lastOp'.key) =>
        LET k == lastOp'.key
        IN /\ KeySeq(store') = KeySeq(store)
           /\ \A j \in KeysOf(store) \ {k} : Get(store', j) = Get(store, j)
           /\ {t \in timers' : t.key # k} = {t \in timers : t.key # k}
           /\ DOMAIN timeouts' \ {k} = DOMAIN timeouts \ {k}
           /\ \A j \in DOMAIN timeouts \ {k} : timeouts'[j] = timeouts[j]
           /\ SelectSeq(dateCache', LAMBDA e : e[1] # k)
                = SelectSeq(dateCache, LAMBDA e : e[1] # k)]_vars

\* C3 witness: a key other than the oldest was set again while the container
\* was full and held other entries.
C3_Witness ==
    /\ Limited /\ capacity >= 2
    /\ lastOp.op = "set" /\ lastOp.existed /\ lastOp.full
    /\ Len(store) = capacity
    /\ Has(store, lastOp.key) /\ firstKey(store) # lastOp.key

\* C4: a timer armed by a set of k that a later set of k superseded neither
\* removes k nor invokes on-expire when it fires.
C4_SupersededTimerIsCancelled ==
    lastOp.op = "fire" /\ lastOp.superseded => ~lastOp.removed /\ calls = <<>>

\* C5: when the timer of a set(k, v, ttl) fires and the caller has not touched
\* k since, k is gone and on-expire has been invoked exactly once since that
\* set, with (k, v).
C5_ExpiresOnceWithStoredValue ==
    lastOp.op = "fire" /\ ~lastOp.superseded /\ ~lastOp.doomed =>
        /\ ~Has(store, lastOp.key)
        /\ expired[lastOp.key] = <<lastOp.value>>

\* C6: k set with a long ttl and set again with a shorter one is not removed
\* by the long timer before the shorter ttl has elapsed, and on-expire is
\* invoked at most once for k.
C6_ShorterTtlDecides ==
    /\ lastOp.op = "fire" /\ lastOp.superseded /\ lastOp.removed =>
           ~\E u \in timers :
               /\ u.key = lastOp.key /\ ~u.superseded /\ ~u.doomed
               /\ u.ttl < lastOp.ttl
               /\ now < u.deadline
    /\ \A k \in Keys : Len(expired[k]) <= 1

\* C7: a timer armed by a set of k made before k was removed by delete,
\* clear or eviction neither invokes on-expire nor removes an entry that was
\* re-inserted under k.
C7_TimerOfRemovedKeyIsCancelled ==
    lastOp.op = "fire" /\ lastOp.doomed => ~lastOp.removed /\ calls = <<>>

C9_CallbackAfterDeletion ==
    \A i \in DOMAIN calls : ~calls[i].present

\* C10: a sweep tick in which on-expire threw has still deleted every entry
\* it reported and has left no expired entry in the store.
C10_ThrowDoesNotStopTick ==
    lastOp.op = "tick" /\ lastOp.threw =>
        /\ \A i \in DOMAIN calls :
               ~Has(store, calls[i].key) /\ ~Has(dateCache, calls[i].key)
        /\ \A i \in DOMAIN store :
               Has(dateCache, store[i][1]) => ~Stale(Get(dateCache, store[i][1]))

\* the keys a step removed from the store, and the keys on-expire was invoked
\* for by the operation that made the step
Removed == KeysOf(store) \ KeysOf(store')

Reported == {calls'[i].key : i \in DOMAIN calls'}

\* C11: a sweep tick removes a key of the store exactly when the tick runs
\* later than the key's most recent set time plus that call's ttl plus
\* expireAfter (ticks in which on-expire threw or deleted other keys aside).
C11_RemovedWhenDue ==
    [][lastOp'.op = "tick" /\ ~lastOp'.threw /\ Removed = Reported =>
          \A k \in KeysOf(store) :
              k \in Removed <=> now > setAt[k] + expireAfter]_vars

\* C13: in the sweep variant the date cache holds a key if and only if the
\* store holds it and the sweep interval is running.
C13_CacheMirrorsStore ==
    variant = "sweep" =>
        \A k \in Keys : Has(dateCache, k) <=> (Has(store, k) /\ interval)

\* C14: startInterval() leaves a timestamp of the restart time in the date
\* cache for every entry of the store, and a tick that runs before any time
\* has passed since the restart removes nothing.
C14_RestartStampsEntries ==
    [][/\ lastOp'.op = "start" /\ hasInterval =>
              \A k \in KeysOf(store') :
                  Has(dateCache', k) /\ Get(dateCache', k) = now
       /\ lastOp.op = "start" /\ lastOp'.op = "tick" /\ expireAfter >= 0 =>
              store' = store]_vars

\* C15: in the sweep variant, while no interval is running (none configured,
\* or stopInterval() was called and startInterval() not since) no tick runs and
\* the passing of time removes nothing: stopInterval() leaves no interval
\* running, and without one the store changes by explicit operations only.
C15_NoBackgroundRemovalWhileStopped ==
    [][variant = "sweep" =>
          /\ ~hasInterval => ~interval'
          /\ lastOp'.op = "stop" => ~interval'
          /\ ~interval /\ store' # store =>
                 lastOp'.op \notin {"tick", "advance"}]_vars

\* C15 witness: time passed while the interval was stopped and the store held
\* an entry older than expireAfter.
C15_Witness ==
    /\ variant = "sweep" /\ hasInterval /\ ~interval
    /\ lastOp.op = "advance"
    /\ \E i \in DOMAIN dateCache :
           Has(store, dateCache[i][1]) /\ Stale(dateCache[i][2])

\* C16: with a sweep interval and no expireAfter option (the default, 0) a
\* tick in which on-expire does not throw leaves the store empty.
C16_TickFlushesEverything ==
    [][lastOp'.op = "tick" /\ ~lastOp'.threw /\ expireAfter = 0 =>
          store' = <<>>]_vars

\* C17: in one sweep tick no key is reported to on-expire twice, whatever keys
\* the callback deletes, and unless the callback throws every reported key is
\* gone from the store when the tick ends.
C17_NoKeyReportedTwice ==
    lastOp.op = "tick" =>
        /\ \A i, j \in DOMAIN calls : i # j => calls[i].key # calls[j].key
        /\ ~lastOp.threw => \A i \in DOMAIN calls : ~Has(store, calls[i].key)

\* C17 witness: a tick reported one of two entries and ended with an empty
\* store: the callback deleted the other entry.
C17_Witness ==
    /\ lastOp.op = "tick" /\ ~lastOp.threw
    /\ Len(calls) = 1 /\ calls[1].size = 2
    /\ store = <<>>

SetEvents == SelectSeq(log, LAMBDA e : e.ev = "set")

Expiries(k) == SelectSeq(log, LAMBDA e : e.ev = "expire" /\ e.key = k)

\* the first multiple of Period after time t, and whether its tick has run
FirstTickAfter(t) == Epoch + (((t - Epoch) \div Period) + 1) * Period

TickRan(t) == now > t \/ (now = t /\ lastOp.op = "tick")

\* a set at Epoch (t = 0), b set 60 ms later, and nothing else
Scenario ==
    \E va, vb \in Values :
        SetEvents = << [ev |-> "set", key |-> 1, value |-> va, at |-> Epoch],
                       [ev |-> "set", key |-> 2, value |-> vb, at |-> Epoch + 6] >>

\* C12 (as claimed): 160 ms after a was set both keys are gone and on-expire
\* has been invoked once for each.
C12_BothGoneAt160 ==
    Scenario /\ now >= Epoch + 16 =>
        /\ store = <<>>
        /\ Len(Expiries(1)) = 1 /\ Len(Expiries(2)) = 1

\* C12: an entry set at time s is removed by the first tick that runs later
\* than s + expireAfter and by no tick before; that tick invokes on-expire for
\* it, once, with the value stored (so a, set at 0, goes at the tick of 100 ms
\* and b, set at 60 ms, at the tick of 200 ms).
C12_GoneAtFirstTickPastWindow ==
    \A i \in DOMAIN SetEvents :
        LET e == SetEvents[i]
            t == FirstTickAfter(e.at + expireAfter)
        IN IF TickRan(t)
           THEN /\ ~Has(store, e.key)
                /\ Expiries(e.key) = << [ev |-> "expire", key |-> e.key,
                                         value |-> e.value, at |-> t] >>
           ELSE /\ Has(store, e.key) /\ Get(store, e.key) = e.value
                /\ Expiries(e.key) = <<>>

\* C12 witness: the scenario, 160 ms in: a has been reported and b is still
\* in the store.
C12_Witness ==
    /\ Scenario /\ now = Epoch + 16
    /\ KeySeq(store) = <<2>>
    /\ Len(Expiries(1)) = 1 /\ Len(Expiries(2)) = 0

\* ---- construction
\* what the container's contract calls a valid duration or callback
ValidInterval(x) == x = Absent \/ (isSafeInteger(x) /\ x.n > 0)

ValidExpireAfter(x) == x = Absent \/ (isSafeInteger(x) /\ x.n >= 0)

ValidCapacity(x) == x = Absent \/ (isSafeInteger(x) /\ x.n > 0)

ZeroCapacity ==
    /\ lastOp.op # "none"
    /\ options.capacity = Integer(0)
    /\ ValidInterval(options.intervalTime)
    /\ ValidExpireAfter(options.expireAfter)
    /\ options.callback # "other"

\* C19 (as claimed): a container given capacity 0 is constructed, and it is
\* empty after every operation.
C19_ZeroCapacityConstructs ==
    ZeroCapacity => ~thrown /\ store = <<>>

\* C19: in the sweep variant a container given itemsLimit 0 is constructed and
\* is empty, with an empty date cache, after every operation; in the timer
\* variant the constructor throws for capacity 0.
C19_ZeroCapacityBySource ==
    ZeroCapacity =>
        IF variant = "sweep"
        THEN ~thrown /\ capacity = 0 /\ store = <<>> /\ dateCache = <<>>
        ELSE thrown

\* C19 witness: set has just been called on a sweep container of itemsLimit 0
\* that has an interval.
C19_Witness ==
    /\ ZeroCapacity /\ variant = "sweep" /\ hasInterval
    /\ lastOp.op = "set" /\ store = <<>>

\* C20: the constructor throws for a capacity that is zero, negative or not an
\* integer, an interval that is not a positive integer, an expireAfter that is
\* not a non-negative integer, or a callback that is not a function.
C20_InvalidOptionsThrow ==
    /\ lastOp.op # "none"
    /\ \/ ~ValidCapacity(options.capacity)
       \/ ~ValidInterval(options.intervalTime)
       \/ ~ValidExpireAfter(options.expireAfter)
       \/ options.callback = "other"
    => thrown

\* ---- bulk calls
\* no capacity option was given
Unlimited == capacity \in {NO_LIMIT, MAX_SAFE_INTEGER}

\* Map.prototype.set of every entry of es, in order
RECURSIVE MapSetAll(_, _)
MapSetAll(s, es) ==
    IF es = <<>> THEN s ELSE MapSetAll(MapSet(s, es[1][1], es[1][2]), Tail(es))

RECURSIVE Flatten(_)
Flatten(ss) == IF ss = <<>> THEN <<>> ELSE ss[1] \o Flatten(Tail(ss))

\* C21: concat returns the receiver's entries followed by the children's in
\* argument order, a key that occurs more than once keeping its first
\* position and taking its last value.
C21_ReceiverThenChildren ==
    result.op = "concat" /\ Unlimited =>
        result.returned = MapSetAll(result.receiver, Flatten(result.children))

\* C22: with unlimited capacity a.concat(b, c) and a.concat(b).concat(c) have
\* the same entries in the same order.
C22_ConcatAssociates ==
    result.op = "concat" /\ Len(result.children) = 2 /\ Unlimited =>
        result.returned = result.chained

\* the keys of the children of the last call
ChildKeys == KeysOf(Flatten(result.children))

\* C23 (as claimed): after concatMut the capacity limit holds, every key of
\* the receiver that a child holds is where it was with the value of the last
\* child holding it, and the keys new to the receiver follow the receiver's.
C23_CollidingKeysStay ==
    result.op = "concatMut" =>
        /\ capacity >= 0 => Len(store) <= capacity
        /\ \A k \in ChildKeys :
              /\ Has(store, k)
              /\ Get(store, k) = Get(MapSetAll(<<>>, Flatten(result.children)), k)
              /\ Has(result.receiver, k) =>
                     IndexOf(store, k) = IndexOf(result.receiver, k)
              /\ ~Has(result.receiver, k) => IndexOf(store, k) > Len(result.receiver)

\* the receiver can take every key of the children without evicting
Fits ==
    Unlimited \/ Cardinality(KeysOf(result.receiver) \cup ChildKeys) <= capacity

\* C23: after concatMut the capacity limit holds; when the receiver can take
\* every key of the children without evicting, its entries are those of
\* Map.prototype.set applied to every child entry in child and insertion
\* order: new keys appended, colliding keys in place with the last value.
C23_MergesWhenItFits ==
    result.op = "concatMut" =>
        /\ capacity >= 0 => Len(store) <= capacity
        /\ Fits => store = MapSetAll(result.receiver, Flatten(result.children))

\* C23 witness: concatMut of two children that collide with each other and
\* with the receiver and bring a new key, and all of it fits.
C23_Witness ==
    /\ result.op = "concatMut" /\ Fits /\ Len(result.children) = 2
    /\ KeysOf(result.children[1]) \cap KeysOf(result.children[2])
           \cap KeysOf(result.receiver) # {}
    /\ ChildKeys \ KeysOf(result.receiver) # {}
    /\ Len(store) = NumKeys

\* the entries of s whose key is in keep, in the order of s
Kept(s, keep) == SelectSeq(s, LAMBDA e : e[1] \in keep)

\* C24: retain and filterMut call the predicate once for every entry that was
\* present, in insertion order, and leave exactly the entries it accepts, in
\* their original order.
C24_RetainVisitsEachOnce ==
    result.op \in {"retain", "filterMut"} =>
        /\ result.seen = result.receiver
        /\ store = Kept(result.receiver, result.keep)

\* C24 witness: the predicate rejected the first entry of a full store and
\* accepted the last one, which is still there.
C24_Witness ==
    /\ result.op \in {"retain", "filterMut"}
    /\ Len(result.receiver) = NumKeys
    /\ result.receiver[1][1] \notin result.keep
    /\ result.receiver[NumKeys][1] \in result.keep
    /\ Len(store) = NumKeys - 1

\* C25: filter returns a new container built from the receiver's options that
\* holds the accepted entries in the receiver's order, with no timer
\* registered and every date-cache stamp taken at the call; the receiver keeps
\* its entries.
C25_FilterBuildsFresh ==
    result.op = "filter" =>
        /\ result.returned = Kept(result.receiver, result.keep)
        /\ result.built = [thrown |-> FALSE, capacity |-> capacity,
                           expireAfter |-> expireAfter, hasInterval |-> hasInterval]
        /\ result.timers = {} /\ result.timeouts = <<>>
        /\ result.dateCache =
              IF hasInterval
              THEN [i \in DOMAIN result.returned |-> <<result.returned[i][1], now>>]
              ELSE <<>>
        /\ store = result.receiver

\* C25 witness: filter on a receiver that has a pending timer accepted some
\* but not all entries.
C25_Witness ==
    /\ result.op = "filter" /\ timers # {}
    /\ result.returned # <<>>
    /\ Len(result.returned) < Len(store)

\* the invocations a fused map makes for the entries es: the filter for every
\* entry, the mapper right after it for an entry the filter accepts
RECURSIVE FusedTrace(_, _)
FusedTrace(es, keep) ==
    IF es = <<>> THEN <<>>
    ELSE << [fn |-> "filter", key |-> es[1][1], value |-> es[1][2]] >>
         \o (IF es[1][1] \in keep
             THEN << [fn |-> "map", key |-> es[1][1], value |-> es[1][2]] >>
             ELSE <<>>)
         \o FusedTrace(Tail(es), keep)

C27_SortKeepsAndOrders ==
    result.op = "sort" /\ lastOp.op = "other" =>
        /\ Len(store) = Len(result.receiver)
        /\ {store[i] : i \in DOMAIN store} =
               {result.receiver[i] : i \in DOMAIN result.receiver}
        /\ \A i, j \in DOMAIN store :
               i < j => Cmp(result.cmp, store[i], store[j]) <= 0
        /\ result.receiver = <<>> =>
               /\ dateCache = result.dateCache
               /\ timeouts = result.timeouts
               /\ timers = result.timers

\* C27 witness: a sort that reversed a full store.
C27_Witness ==
    /\ result.op = "sort" /\ lastOp.op = "other"
    /\ Len(store) = NumKeys
    /\ \A i \in DOMAIN store : store[i] = result.receiver[NumKeys + 1 - i]

\* C28 (as claimed): a timer that fires after the sort removes no entry and
\* reports nothing to on-expire.
C28_TimersDeadAfterSort ==
    [][result.op = "sort" /\ lastOp'.op = "fire" =>
           ~lastOp'.removed /\ calls' = <<>>]_vars

\* C28: the timer variant's sort leaves every pending timer and the timeout
\* table as they were, and a timer that fires after the sort removes its
\* entry, if the entry is there, and reports it to on-expire once; the sweep
\* variant's sort stamps every entry with the time of the sort.
C28_SortKeepsTimers ==
    [][/\ result.op = "none" /\ result'.op = "sort" =>
            IF variant = "timer"
            THEN timers' = timers /\ timeouts' = timeouts
            ELSE hasInterval =>
                    dateCache' = [i \in DOMAIN store' |-> <<store'[i][1], now>>]
       /\ result.op = "sort" /\ lastOp'.op = "fire" =>
            /\ ~Has(store', lastOp'.key)
            /\ Has(store, lastOp'.key) =>
                   /\ lastOp'.removed
                   /\ Len(calls') = 1 /\ calls'[1].key = lastOp'.key]_vars

\* C28 witness: after a sort of a full store the timer of an entry set with a
\* ttl has fired and removed it.
C28_Witness ==
    /\ result.op = "sort" /\ Len(result.receiver) = NumKeys
    /\ lastOp.op = "fire" /\ lastOp.removed /\ ~lastOp.superseded
    /\ Len(calls) = 1 /\ Len(store) = NumKeys - 1

\* ---- the lockstep of the sweep
\* C30: when a tick starts, the date cache lists the keys of the store, in the
\* order of the store.
C30_TickFindsCacheAligned ==
    [][lastOp'.op = "tick" => KeySeq(dateCache) = KeySeq(store)]_vars

\* ---- the timeout table
\* C33: in the timer variant every pending timer is the handle the timeout
\* table holds for its key, and every key of the timeout table is a key of
\* the store.
C33_PendingTimersAreRegistered ==
    variant = "timer" =>
        /\ \A t \in timers :
               t.key \in DOMAIN timeouts /\ timeouts[t.key] = t.id
        /\ \A k \in DOMAIN timeouts : Has(store, k)

\* ---- the sources of concat
\* C34: concat leaves the receiver's entries, their order, its date cache, its
\* timers and its timeout table as they were.
C34_ConcatLeavesReceiver ==
    [][result.op = "none" /\ result'.op = "concat" =>
           /\ store' = store
           /\ dateCache' = dateCache
           /\ timers' = timers /\ timeouts' = timeouts]_vars

\* ---- traversals
\* C32: a traversal whose callback inserts keys returns.
C32_TraversalReturns == Traversing ~> (result.op = "some" /\ result.done)

\* ---- clear, sort and the periodic sweep
\* C31: clear() without the stop flag and sort() leave the periodic sweep
\* running, with the store emptied by clear and the date cache holding
\* nothing but the entries set since.
C31_ClearAndSortKeepSweeping ==
    [][lastOp'.op \in {"clear", "sort"} =>
           /\ interval' = interval
           /\ lastOp'.op = "clear" => store' = <<>> /\ dateCache' = <<>>]_vars

====
